---- MODULE Spec2Model ----
(***************************************************************************)
(* MakeAPaymentPanel: the payment panel of the billing page.  The panel    *)
(* takes a credit-card payment with makePayment, or a PayPal payment in    *)
(* three steps: the PayPal button calls payment(), which stages the        *)
(* payment; the button reports the user's authorization with onAuthorize   *)
(* or the user's withdrawal with onCancel; the confirmation dialog's       *)
(* Confirm button executes the staged payment.                             *)
(*                                                                         *)
(* The component's state is React state, changed by setState inside event  *)
(* handlers and promise callbacks.  Each handler runs to completion, so    *)
(* each is one action; a gateway request is a record in `requests` from    *)
(* the moment the handler issues it until its promise settles, and the     *)
(* settling runs the .then or the .catch callback as an action of its own. *)
(* A handler is enabled whenever the control it is bound to is rendered.   *)
(*                                                                         *)
(* The environment is the user, the gateway and the PayPal button.  The    *)
(* handlers are the only guards: the loading prop that the buttons are     *)
(* given keeps no handler from being invoked, and the open dialog keeps no *)
(* control of the form from being used.  The PayPal button calls payment() *)
(* on each click, holds a checkout for each payment id that payment()      *)
(* resolved with while it was mounted, and ends each checkout with one     *)
(* onAuthorize or one onCancel; unmounting it ends its checkouts.          *)
(*                                                                         *)
(* stagedFate is a history variable and no state of the component.  It     *)
(* follows the staged payment that state.paymentID names: "none" before    *)
(* any payment is staged, "staged" once a stage response recorded it,      *)
(* "executed" once Confirm issued an execute request for it, "cancelled"   *)
(* once closeDialog, or onCancel for that payment, cancelled it while no   *)
(* execute request had been issued for it.                                 *)
(***************************************************************************)
EXTENDS Integers, Sequences, FiniteSets, Bags, TLC

VARIABLES
    type,                     \* state.type
    submitting,               \* state.submitting
    success,                  \* state.success
    successMessage,           \* state.successMessage
    errors,                   \* state.errors
    usd,                      \* state.usd, a sequence of characters
    ccv,                      \* state.ccv
    showPaypal,               \* state.showPaypal
    paymentID,                \* state.paymentID
    payerID,                  \* state.payerID
    isExecutingPaypalPayment, \* state.isExecutingPaypalPayment
    paypalSubmitEnabled,      \* state.paypalSubmitEnabled
    dialogOpen,               \* state.dialogOpen
    isScriptLoadSucceed,      \* props.isScriptLoadSucceed
    requests,                 \* bag of the gateway requests whose promise has not settled
    staged,                   \* number of payments the gateway has staged so far
    checkouts,                \* payment ids the PayPal button holds a checkout for
    stagedFate,               \* history: what became of the payment paymentID names
    clusterId,                \* DeleteKubernetesClusterDialog: props.clusterId
    open,                     \* props.open
    deleting,                 \* the mutation's isLoading (isDeleting)
    superseded,               \* pending deleteCluster promises of earlier mutations
    mutationError,            \* the mutation's error
    formErrors,               \* CreateAlertDefinition: formState.errors
    creating,                 \* pending createAlert promises
    history,                  \* the router's history, the current location last
    calls                     \* the calls the latest step made to onClose,
                              \* history and enqueueSnackbar, in their order

\* the state of MakeAPaymentPanel
panelVars == <<type, submitting, success, successMessage, errors, usd, ccv,
               showPaypal, paymentID, payerID, isExecutingPaypalPayment,
               paypalSubmitEnabled, dialogOpen, isScriptLoadSucceed, requests,
               staged, checkouts, stagedFate>>

\* the state of DeleteKubernetesClusterDialog and its mutation hook
clusterVars == <<clusterId, open, deleting, superseded, mutationError>>

\* the state of CreateAlertDefinition
alertVars == <<formErrors, creating>>

\* the router and the calls made to it and to the other props and hooks
routerVars == <<history, calls>>

\* what no handler of MakeAPaymentPanel touches
outsidePanel == <<clusterVars, alertVars, routerVars>>

vars == <<panelVars, clusterVars, alertVars, routerVars>>

(***************************************************************************)
(* Bounds of the model.                                                    *)
(***************************************************************************)
\* gateway requests awaiting their response at one time
MaxInFlight == 2

\* payments the gateway stages in one behaviour
MaxStaged == 2

(***************************************************************************)
(* Values.                                                                 *)
(***************************************************************************)
\* JavaScript's undefined, for an optional string or flag that is not set
Undefined == "undefined"

\* what the user can type into the amount field: nothing, or an amount
\* that needs a digit added to have two decimal places
UsdInputs == { <<>>, <<"1", "0", ".", "5">> }

\* what the user can type into the CCV field
CcvInputs == { "", "123" }

\* the payer ids the PayPal button can deliver
PayerIds == { "PAYER-1" }

GenericReason == "Unable to make a payment at this time."

CancelledMessage == "Payment Cancelled"

\* state.errors is optional: undefined, or a list of ApiFieldError
ErrorsUndefined == [defined |-> FALSE, list |-> <<>>]

ErrorList(l) == [defined |-> TRUE, list |-> l]

\* the error lists a gateway response can carry
GatewayErrorLists ==
    { <<[field |-> "usd", reason |-> "Amount must be at least 5."],
        [field |-> Undefined, reason |-> "Payment declined."]>> }

\* the rejection a promise can settle with: an API response carrying
\* response.data.errors, or an error without a response (network failure)
GatewayRejections ==
    { [hasErrors |-> TRUE, errors |-> l] : l \in GatewayErrorLists }
        \cup { [hasErrors |-> FALSE, errors |-> <<>>] }

(***************************************************************************)
(* JavaScript's number conversions, on strings kept as character sequences.*)
(* A number is NaN or (-1)^neg * mant / 10^scale.                          *)
(***************************************************************************)
DigitChars == <<"0", "1", "2", "3", "4", "5", "6", "7", "8", "9">>

IsDigit(c) == \E i \in 1..10 : DigitChars[i] = c

DigitValue(c) == (CHOOSE i \in 1..10 : DigitChars[i] = c) - 1

AllDigits(s) == \A i \in 1..Len(s) : IsDigit(s[i])

RECURSIVE DigitsValue(_)
DigitsValue(s) ==
    IF s = <<>> THEN 0
    ELSE 10 * DigitsValue(SubSeq(s, 1, Len(s) - 1)) + DigitValue(s[Len(s)])

RECURSIVE Pow10(_)
Pow10(k) == IF k = 0 THEN 1 ELSE 10 * Pow10(k - 1)

RECURSIVE NatChars(_)
NatChars(n) ==
    IF n < 10 THEN <<DigitChars[n + 1]>>
    ELSE NatChars(n \div 10) \o <<DigitChars[(n % 10) + 1]>>

NaN == [nan |-> TRUE, neg |-> FALSE, mant |-> 0, scale |-> 0]

\* the decimal literal of StringToNumber without its sign and exponent:
\* digits with at most one decimal point; scale counts the fraction digits
Significand(body) ==
    LET dots == {i \in 1..Len(body) : body[i] = "."}
    IN  IF dots = {}
        THEN IF body # <<>> /\ AllDigits(body)
             THEN [nan |-> FALSE, neg |-> FALSE, mant |-> DigitsValue(body), scale |-> 0]
             ELSE NaN
        ELSE IF Cardinality(dots) = 1
        THEN LET d == CHOOSE i \in dots : TRUE
                 ip == SubSeq(body, 1, d - 1)
                 fp == SubSeq(body, d + 1, Len(body))
             IN  IF AllDigits(ip) /\ AllDigits(fp) /\ Len(ip) + Len(fp) > 0
                 THEN [nan |-> FALSE, neg |-> FALSE,
                       mant |-> DigitsValue(ip \o fp), scale |-> Len(fp)]
                 ELSE NaN
        ELSE NaN

\* the exponent part of the literal, after its e: an optional sign and
\* one digit or more
Exponent(part) ==
    LET signed == part # <<>> /\ part[1] \in {"+", "-"}
        digits == IF signed THEN Tail(part) ELSE part
    IN  IF digits # <<>> /\ AllDigits(digits)
        THEN [nan |-> FALSE,
              value |-> (IF signed /\ part[1] = "-" THEN -1 ELSE 1) * DigitsValue(digits)]
        ELSE [nan |-> TRUE, value |-> 0]

\* the unary plus of (+usd): StringToNumber on an optional sign, a decimal
\* literal and an optional exponent; the empty string is 0, anything else
\* is NaN
ToNumber(s) ==
    LET signed == s # <<>> /\ s[1] \in {"+", "-"}
        body == IF signed THEN Tail(s) ELSE s
        neg == s # <<>> /\ s[1] = "-"
        es == {i \in 1..Len(body) : body[i] \in {"e", "E"}}
        e == IF es = {} THEN Len(body) + 1
             ELSE CHOOSE i \in es : \A j \in es : i <= j
        sig == Significand(SubSeq(body, 1, e - 1))
        exp == IF es = {} THEN [nan |-> FALSE, value |-> 0]
               ELSE Exponent(SubSeq(body, e + 1, Len(body)))
    IN  IF s = <<>> THEN [nan |-> FALSE, neg |-> FALSE, mant |-> 0, scale |-> 0]
        ELSE IF sig.nan \/ exp.nan THEN NaN
        ELSE [nan |-> FALSE, neg |-> neg, mant |-> sig.mant,
              scale |-> sig.scale - exp.value]

RECURSIVE Zeros(_)
Zeros(k) == IF k = 0 THEN <<>> ELSE <<"0">> \o Zeros(k - 1)

RECURSIVE WithoutTrailingZeros(_)
WithoutTrailingZeros(s) ==
    IF Len(s) > 1 /\ s[Len(s)] = "0"
    THEN WithoutTrailingZeros(SubSeq(s, 1, Len(s) - 1)) ELSE s

\* Number::toString of a whole number of 22 digits or more, the digits
\* given as characters: the exponential notation d.ddde+n
Exponential(digits) ==
    LET sig == WithoutTrailingZeros(digits)
    IN  <<sig[1]>> \o (IF Len(sig) > 1 THEN <<".">> \o Tail(sig) ELSE <<>>)
                   \o <<"e", "+">> \o NatChars(Len(digits) - 1)

\* toFixed as it would be if it cut the fraction off in place of keeping
\* two digits of it
ToFixed2Truncating(n) ==
    IF n.nan THEN <<"N", "a", "N">>
    ELSE LET sign == IF n.neg /\ n.mant > 0 THEN <<"-">> ELSE <<>>
             whole == IF n.mant = 0 THEN <<"0">>
                      ELSE IF n.scale <= 0 THEN NatChars(n.mant) \o Zeros(-n.scale)
                      ELSE NatChars(n.mant \div Pow10(n.scale))
         IN  IF Len(whole) >= 22 THEN sign \o Exponential(whole)
             ELSE sign \o whole \o <<".", "0", "0">>

\* Number.prototype.toFixed(2): "NaN" for NaN; Number::toString for a number
\* of 10^21 or more; else the sign of a negative number, the integer part,
\* a point and two fraction digits.  A third and later fraction digit
\* rounds to the nearest hundredth (an exact decimal tie is decided by the
\* binary double; the inputs of the model hold no such tie, and their whole
\* numbers are doubles).
ToFixed2(n) ==
    IF n.nan THEN <<"N", "a", "N">>
    ELSE LET sign == IF n.neg /\ n.mant > 0 THEN <<"-">> ELSE <<>>
         IN  IF n.scale <= 0
             THEN LET whole == IF n.mant = 0 THEN <<"0">>
                               ELSE NatChars(n.mant) \o Zeros(-n.scale)
                  IN  IF Len(whole) >= 22 THEN sign \o Exponential(whole)
                      ELSE sign \o whole \o <<".", "0", "0">>
             ELSE LET h == IF n.scale <= 2
                           THEN n.mant * Pow10(2 - n.scale)
                           ELSE (2 * n.mant + Pow10(n.scale - 2))
                                    \div (2 * Pow10(n.scale - 2))
                  IN  sign \o NatChars(h \div 100) \o <<".">>
                           \o <<DigitChars[((h \div 10) % 10) + 1],
                                DigitChars[(h % 10) + 1]>>

\* parseInt(value, 10): the integer of the longest prefix of sign and
\* digits, NaN when that prefix holds no digit
ParseInt10(s) ==
    LET signed == s # <<>> /\ s[1] \in {"+", "-"}
        body == IF signed THEN Tail(s) ELSE s
        stops == {i \in 1..Len(body) : ~IsDigit(body[i])}
        n == IF stops = {} THEN Len(body)
             ELSE (CHOOSE i \in stops : \A j \in stops : i <= j) - 1
    IN  IF n = 0 THEN [nan |-> TRUE, value |-> 0]
        ELSE [nan |-> FALSE,
              value |-> (IF signed /\ s[1] = "-" THEN -1 ELSE 1)
                            * DigitsValue(SubSeq(body, 1, n))]

\* amountAsInt >= 5: a comparison with NaN is false
AtLeastFive(n) == ~n.nan /\ n.value >= 5

\* pathOr as it would be if the response's error list were ignored
pathOrIgnoringResponse(default, error) == default

\* ramda's pathOr(default, ['response', 'data', 'errors'], error): the
\* value at the path, or the default when the path leads nowhere
pathOr(default, error) == IF error.hasErrors THEN error.errors ELSE default

(***************************************************************************)
(* The gateway.                                                            *)
(***************************************************************************)
Request(op, amount, code, payment, payer) ==
    [op |-> op, usd |-> amount, ccv |-> code,
     payment_id |-> payment, payer_id |-> payer]

\* the payment id the gateway issues for the n-th payment it stages
PaymentIdOf(n) == "PAY-" \o ToString(n)

\* the pending requests of operation op, and how many they are
RequestsOf(op) == {r \in BagToSet(requests) : r.op = op}

InFlight(op) == BagCardinality([r \in RequestsOf(op) |-> requests[r]])

\* requests with r added, when a handler issues it
Issued(r) == requests (+) SetToBag({r})

\* requests without one copy of r, whose promise settles
Settled(r) == requests (-) SetToBag({r})

\* the PayPal button is rendered
PaypalButtonRendered == type = "PAYPAL" /\ showPaypal

\* the amount in the text of the confirmation dialog
DialogAmount == ToFixed2(ToNumber(usd))

DefaultSuccessMessage == "Payment successfully submitted."

\* the text of the success notice renderForm shows, Undefined when it
\* shows none
SuccessNotice ==
    IF success = "true"
    THEN IF successMessage \notin {"", Undefined}
         THEN successMessage ELSE DefaultSuccessMessage
    ELSE Undefined


\* the hook's error when the mutation has none
NoError == <<>>

\* the billing page is shown: the other two components are not mounted
OutsidePanelInit ==
    /\ clusterId = 1
    /\ open = FALSE
    /\ deleting = FALSE
    /\ superseded = 0
    /\ mutationError = NoError
    /\ formErrors = {}
    /\ creating = 0
    /\ history = <<"/account/billing">>
    /\ calls = <<>>

PanelInit ==
    /\ type = "CREDIT_CARD"
    /\ submitting = FALSE
    /\ success = Undefined
    /\ successMessage = Undefined
    /\ errors = ErrorsUndefined
    /\ usd = <<>>
    /\ ccv = ""
    /\ showPaypal = FALSE
    /\ dialogOpen = FALSE
    /\ paymentID = ""
    /\ payerID = ""
    /\ isExecutingPaypalPayment = FALSE
    /\ paypalSubmitEnabled = FALSE
    /\ isScriptLoadSucceed = FALSE
    /\ requests = EmptyBag
    /\ staged = 0
    /\ checkouts = {}
    /\ stagedFate = "none"

Init ==
    /\ PanelInit
    /\ OutsidePanelInit

(***************************************************************************)
(* The handlers of the panel.                                              *)
(***************************************************************************)
\* the vendor script has loaded: the component updates with the new prop,
\* and componentDidUpdate shows the PayPal option
componentDidUpdate ==
    /\ ~isScriptLoadSucceed
    /\ isScriptLoadSucceed' = TRUE
    /\ showPaypal' = (IF ~showPaypal /\ isScriptLoadSucceed' THEN TRUE ELSE showPaypal)
    /\ UNCHANGED <<type, submitting, success, successMessage, errors, usd, ccv,
                   paymentID, payerID, isExecutingPaypalPayment,
                   paypalSubmitEnabled, dialogOpen, requests, staged, checkouts,
                   stagedFate, outsidePanel>>

\* the radio group as it would be if the PAYPAL radio were rendered before
\* the script has loaded
handleTypeChangeAnyRadio(value) ==
    /\ type' = value
    /\ checkouts' = (IF value = "PAYPAL" /\ type = "PAYPAL" THEN checkouts ELSE {})
    /\ UNCHANGED <<submitting, success, successMessage, errors, usd, ccv,
                   showPaypal, paymentID, payerID, isExecutingPaypalPayment,
                   paypalSubmitEnabled, dialogOpen, isScriptLoadSucceed,
                   requests, staged, stagedFate, outsidePanel>>

\* the radio group; the PAYPAL radio is rendered once showPaypal is true.
\* Leaving PAYPAL unmounts the PayPal button and with it its checkouts.
handleTypeChange(value) ==
    /\ value = "PAYPAL" => showPaypal
    /\ type' = value
    /\ checkouts' = (IF value = "PAYPAL" /\ type = "PAYPAL" THEN checkouts ELSE {})
    /\ UNCHANGED <<submitting, success, successMessage, errors, usd, ccv,
                   showPaypal, paymentID, payerID, isExecutingPaypalPayment,
                   paypalSubmitEnabled, dialogOpen, isScriptLoadSucceed,
                   requests, staged, stagedFate, outsidePanel>>

handleUSDChange(value) ==
    /\ paypalSubmitEnabled' =
           (IF type = "PAYPAL" /\ AtLeastFive(ParseInt10(value))
            THEN TRUE ELSE paypalSubmitEnabled)
    /\ usd' = value
    /\ UNCHANGED <<type, submitting, success, successMessage, errors, ccv,
                   showPaypal, paymentID, payerID, isExecutingPaypalPayment,
                   dialogOpen, isScriptLoadSucceed, requests, staged, checkouts,
                   stagedFate, outsidePanel>>

\* the CCV field is rendered for CREDIT_CARD only
handleCCVChange(value) ==
    /\ type = "CREDIT_CARD"
    /\ ccv' = value
    /\ UNCHANGED <<type, submitting, success, successMessage, errors, usd,
                   showPaypal, paymentID, payerID, isExecutingPaypalPayment,
                   paypalSubmitEnabled, dialogOpen, isScriptLoadSucceed,
                   requests, staged, checkouts, stagedFate, outsidePanel>>

\* the errors as they would be collected if the CCV were looked at only
\* once the amount had passed
ValidationErrorsFirstOnly(amount, code) ==
    IF amount = <<>>
    THEN <<[field |-> "usd", reason |-> "Amount cannot be blank."]>>
    ELSE IF code = ""
    THEN <<[field |-> "ccv", reason |-> "CCV cannot be blank."]>>
    ELSE <<>>

\* the errors submitForm collects before it submits
ValidationErrors(amount, code) ==
    (IF amount = <<>>
     THEN <<[field |-> "usd", reason |-> "Amount cannot be blank."]>> ELSE <<>>)
    \o (IF code = ""
        THEN <<[field |-> "ccv", reason |-> "CCV cannot be blank."]>> ELSE <<>>)

\* the primary button, rendered in place of the PayPal button
submitForm ==
    /\ ~PaypalButtonRendered
    /\ IF ValidationErrors(usd, ccv) # <<>>
       THEN /\ errors' = ErrorList(ValidationErrors(usd, ccv))
            /\ UNCHANGED <<submitting, successMessage, requests>>
       ELSE /\ BagCardinality(requests) < MaxInFlight
            /\ submitting' = TRUE
            /\ errors' = ErrorsUndefined
            /\ successMessage' = ""
            /\ requests' = Issued(
                   Request("makePayment", ToFixed2(ToNumber(usd)), ccv,
                           Undefined, Undefined))
    /\ UNCHANGED <<type, success, usd, ccv, showPaypal, paymentID, payerID,
                   isExecutingPaypalPayment, paypalSubmitEnabled, dialogOpen,
                   isScriptLoadSucceed, staged, checkouts, stagedFate,
                   outsidePanel>>

makePaymentThen(r) ==
    /\ r \in RequestsOf("makePayment")
    /\ requests' = Settled(r)
    /\ submitting' = FALSE
    /\ success' = "true"
    /\ UNCHANGED <<type, successMessage, errors, usd, ccv, showPaypal, paymentID,
                   payerID, isExecutingPaypalPayment, paypalSubmitEnabled,
                   dialogOpen, isScriptLoadSucceed, staged, checkouts,
                   stagedFate, outsidePanel>>

makePaymentCatch(r, error) ==
    /\ r \in RequestsOf("makePayment")
    /\ requests' = Settled(r)
    /\ submitting' = FALSE
    /\ errors' = ErrorList(pathOr(<<[field |-> Undefined, reason |-> GenericReason]>>, error))
    /\ UNCHANGED <<type, success, successMessage, usd, ccv, showPaypal, paymentID,
                   payerID, isExecutingPaypalPayment, paypalSubmitEnabled,
                   dialogOpen, isScriptLoadSucceed, staged, checkouts,
                   stagedFate, outsidePanel>>

\* the form's Cancel button; it sets type to CREDIT_CARD, which unmounts
\* the PayPal button
resetForm ==
    /\ errors' = ErrorsUndefined
    /\ success' = Undefined
    /\ usd' = <<>>
    /\ ccv' = ""
    /\ type' = "CREDIT_CARD"
    /\ checkouts' = {}
    /\ UNCHANGED <<submitting, successMessage, showPaypal, paymentID, payerID,
                   isExecutingPaypalPayment, paypalSubmitEnabled, dialogOpen,
                   isScriptLoadSucceed, requests, staged, stagedFate,
                   outsidePanel>>

\* the dialog's Cancel button and its onClose
closeDialog ==
    /\ dialogOpen
    /\ dialogOpen' = FALSE
    /\ success' = "true"
    /\ successMessage' = CancelledMessage
    /\ stagedFate' = (IF stagedFate = "staged" THEN "cancelled" ELSE stagedFate)
    /\ UNCHANGED <<type, submitting, errors, usd, ccv, showPaypal, paymentID,
                   payerID, isExecutingPaypalPayment, paypalSubmitEnabled,
                   isScriptLoadSucceed, requests, staged, checkouts,
                   outsidePanel>>

\* the dialog's Confirm Payment button
confirmPaypalPayment ==
    /\ dialogOpen
    /\ BagCardinality(requests) < MaxInFlight
    /\ isExecutingPaypalPayment' = TRUE
    /\ requests' = Issued(
           Request("executePaypalPayment", <<>>, Undefined, paymentID, payerID))
    /\ stagedFate' = (IF stagedFate = "staged" THEN "executed" ELSE stagedFate)
    /\ UNCHANGED <<type, submitting, success, successMessage, errors, usd, ccv,
                   showPaypal, paymentID, payerID, paypalSubmitEnabled,
                   dialogOpen, isScriptLoadSucceed, staged, checkouts,
                   outsidePanel>>

\* the .then callback as it would be if it left successMessage as it was
executePaypalPaymentThenKeepingMessage(r) ==
    /\ r \in RequestsOf("executePaypalPayment")
    /\ requests' = Settled(r)
    /\ isExecutingPaypalPayment' = FALSE
    /\ dialogOpen' = FALSE
    /\ success' = "true"
    /\ usd' = <<>>
    /\ UNCHANGED <<type, submitting, successMessage, errors, ccv, showPaypal,
                   paymentID, payerID, paypalSubmitEnabled, isScriptLoadSucceed,
                   staged, checkouts, stagedFate, outsidePanel>>

executePaypalPaymentThen(r) ==
    /\ r \in RequestsOf("executePaypalPayment")
    /\ requests' = Settled(r)
    /\ isExecutingPaypalPayment' = FALSE
    /\ dialogOpen' = FALSE
    /\ success' = "true"
    /\ usd' = <<>>
    /\ successMessage' = ""
    /\ UNCHANGED <<type, submitting, errors, ccv, showPaypal, paymentID, payerID,
                   paypalSubmitEnabled, isScriptLoadSucceed, staged, checkouts,
                   stagedFate, outsidePanel>>

executePaypalPaymentCatch(r, error) ==
    /\ r \in RequestsOf("executePaypalPayment")
    /\ requests' = Settled(r)
    /\ submitting' = FALSE
    /\ errors' = ErrorList(pathOr(<<[field |-> Undefined, reason |-> GenericReason]>>, error))
    /\ UNCHANGED <<type, success, successMessage, usd, ccv, showPaypal, paymentID,
                   payerID, isExecutingPaypalPayment, paypalSubmitEnabled,
                   dialogOpen, isScriptLoadSucceed, staged, checkouts,
                   stagedFate, outsidePanel>>

\* the payment callback as it would be if the button could be clicked only
\* once paypalSubmitEnabled is true
paymentOnceEnabled ==
    /\ PaypalButtonRendered
    /\ paypalSubmitEnabled
    /\ BagCardinality(requests) < MaxInFlight
    /\ staged + InFlight("stagePaypalPayment") < MaxStaged
    /\ submitting' = TRUE
    /\ errors' = ErrorList(<<>>)
    /\ requests' = Issued(
           Request("stagePaypalPayment", ToFixed2(ToNumber(usd)), Undefined,
                   Undefined, Undefined))
    /\ UNCHANGED <<type, success, successMessage, usd, ccv, showPaypal, paymentID,
                   payerID, isExecutingPaypalPayment, paypalSubmitEnabled,
                   dialogOpen, isScriptLoadSucceed, staged, checkouts,
                   stagedFate, outsidePanel>>

\* the PayPal button's payment callback, called when the button is clicked
payment ==
    /\ PaypalButtonRendered
    /\ BagCardinality(requests) < MaxInFlight
    /\ staged + InFlight("stagePaypalPayment") < MaxStaged
    /\ submitting' = TRUE
    /\ errors' = ErrorList(<<>>)
    /\ requests' = Issued(
           Request("stagePaypalPayment", ToFixed2(ToNumber(usd)), Undefined,
                   Undefined, Undefined))
    /\ UNCHANGED <<type, success, successMessage, usd, ccv, showPaypal, paymentID,
                   payerID, isExecutingPaypalPayment, paypalSubmitEnabled,
                   dialogOpen, isScriptLoadSucceed, staged, checkouts,
                   stagedFate, outsidePanel>>

\* the .then callback as it would be if it did not record the payment id
stagePaypalPaymentThenWithoutId(r) ==
    /\ r \in RequestsOf("stagePaypalPayment")
    /\ requests' = Settled(r)
    /\ submitting' = FALSE
    /\ staged' = staged + 1
    /\ checkouts' = (IF PaypalButtonRendered
                     THEN checkouts \cup {PaymentIdOf(staged')} ELSE checkouts)
    /\ UNCHANGED <<type, success, successMessage, errors, usd, ccv, showPaypal,
                   paymentID, payerID, isExecutingPaypalPayment,
                   paypalSubmitEnabled, dialogOpen, isScriptLoadSucceed,
                   stagedFate, outsidePanel>>

\* the stage request succeeded; payment() resolves with the payment id, and
\* a mounted PayPal button opens the checkout for it
stagePaypalPaymentThen(r) ==
    /\ r \in RequestsOf("stagePaypalPayment")
    /\ requests' = Settled(r)
    /\ submitting' = FALSE
    /\ staged' = staged + 1
    /\ paymentID' = PaymentIdOf(staged')
    /\ checkouts' = (IF PaypalButtonRendered
                     THEN checkouts \cup {PaymentIdOf(staged')} ELSE checkouts)
    /\ stagedFate' = "staged"
    /\ UNCHANGED <<type, success, successMessage, errors, usd, ccv, showPaypal,
                   payerID, isExecutingPaypalPayment, paypalSubmitEnabled,
                   dialogOpen, isScriptLoadSucceed, outsidePanel>>

\* the stage request failed; payment() resolves with nothing and the
\* button has no checkout to open
stagePaypalPaymentCatch(r, error) ==
    /\ r \in RequestsOf("stagePaypalPayment")
    /\ requests' = Settled(r)
    /\ submitting' = FALSE
    /\ errors' = ErrorList(pathOr(<<[field |-> Undefined, reason |-> GenericReason]>>, error))
    /\ UNCHANGED <<type, success, successMessage, usd, ccv, showPaypal, paymentID,
                   payerID, isExecutingPaypalPayment, paypalSubmitEnabled,
                   dialogOpen, isScriptLoadSucceed, staged, checkouts,
                   stagedFate, outsidePanel>>

\* onAuthorize as it would be if it executed the payment straight away
\* in place of opening the confirmation dialog for the user to confirm
onAuthorizeExecuting(id, payer) ==
    /\ PaypalButtonRendered
    /\ id \in checkouts
    /\ BagCardinality(requests) < MaxInFlight
    /\ checkouts' = checkouts \ {id}
    /\ dialogOpen' = TRUE
    /\ payerID' = payer
    /\ isExecutingPaypalPayment' = TRUE
    /\ requests' = Issued(
           Request("executePaypalPayment", <<>>, Undefined, paymentID, payer))
    /\ stagedFate' = (IF stagedFate = "staged" THEN "executed" ELSE stagedFate)
    /\ UNCHANGED <<type, submitting, success, successMessage, errors, usd, ccv,
                   showPaypal, paymentID, paypalSubmitEnabled,
                   isScriptLoadSucceed, staged, outsidePanel>>

\* the PayPal button reports that the user authorized checkout id
onAuthorize(id, payer) ==
    /\ PaypalButtonRendered
    /\ id \in checkouts
    /\ checkouts' = checkouts \ {id}
    /\ dialogOpen' = TRUE
    /\ payerID' = payer
    /\ UNCHANGED <<type, submitting, success, successMessage, errors, usd, ccv,
                   showPaypal, paymentID, isExecutingPaypalPayment,
                   paypalSubmitEnabled, isScriptLoadSucceed, requests, staged,
                   stagedFate, outsidePanel>>

\* the PayPal button reports that the user abandoned checkout id
onCancel(id) ==
    /\ PaypalButtonRendered
    /\ id \in checkouts
    /\ checkouts' = checkouts \ {id}
    /\ success' = "true"
    /\ successMessage' = CancelledMessage
    /\ stagedFate' = (IF stagedFate = "staged" /\ id = paymentID
                      THEN "cancelled" ELSE stagedFate)
    /\ UNCHANGED <<type, submitting, errors, usd, ccv, showPaypal, paymentID,
                   payerID, isExecutingPaypalPayment, paypalSubmitEnabled,
                   dialogOpen, isScriptLoadSucceed, requests, staged,
                   outsidePanel>>

Next ==
    \/ componentDidUpdate
    \/ \E value \in {"CREDIT_CARD", "PAYPAL"} : handleTypeChange(value)
    \/ \E value \in UsdInputs : handleUSDChange(value)
    \/ \E value \in CcvInputs : handleCCVChange(value)
    \/ submitForm
    \/ \E r \in BagToSet(requests) : makePaymentThen(r)
    \/ \E r \in BagToSet(requests), error \in GatewayRejections : makePaymentCatch(r, error)
    \/ resetForm
    \/ closeDialog
    \/ confirmPaypalPayment
    \/ \E r \in BagToSet(requests) : executePaypalPaymentThen(r)
    \/ \E r \in BagToSet(requests), error \in GatewayRejections : executePaypalPaymentCatch(r, error)
    \/ payment
    \/ \E r \in BagToSet(requests) : stagePaypalPaymentThen(r)
    \/ \E r \in BagToSet(requests), error \in GatewayRejections : stagePaypalPaymentCatch(r, error)
    \/ \E id \in checkouts, payer \in PayerIds : onAuthorize(id, payer)
    \/ \E id \in checkouts : onCancel(id)

Spec == Init /\ [][Next]_vars

(***************************************************************************)
(* The panel with a draft entered, submitted as it stands.  The amounts    *)
(* are what handleUSDChange accepts: any string.                           *)
(***************************************************************************)
\* amounts the user can enter: nothing, zero, a negative amount, an amount
\* below 5, amounts that need digits added to have two decimal places,
\* letters, and a number of 22 digits in the notation a number field takes
AmountInputs ==
    { <<>>, <<"0">>, <<"-", "1">>, <<"3">>, <<"1", "0">>,
      <<"1", "0", ".", "5">>, <<"a", "b">>, <<"1", "e", "2", "1">> }

\* the state once the script has loaded and the user has entered the CCV,
\* chosen the type and typed an amount twice: componentDidUpdate,
\* handleCCVChange(code), handleTypeChange(kind), handleUSDChange(first),
\* handleUSDChange(amount)
InitDraft ==
    \E kind \in {"CREDIT_CARD", "PAYPAL"}, first \in AmountInputs,
       amount \in AmountInputs, code \in CcvInputs :
        /\ type = kind
        /\ usd = amount
        /\ ccv = code
        /\ paypalSubmitEnabled =
               (kind = "PAYPAL" /\ ( \/ AtLeastFive(ParseInt10(first))
                                    \/ AtLeastFive(ParseInt10(amount)) ))
        /\ showPaypal = TRUE
        /\ isScriptLoadSucceed = TRUE
        /\ submitting = FALSE
        /\ success = Undefined
        /\ successMessage = Undefined
        /\ errors = ErrorsUndefined
        /\ dialogOpen = FALSE
        /\ paymentID = ""
        /\ payerID = ""
        /\ isExecutingPaypalPayment = FALSE
        /\ requests = EmptyBag
        /\ staged = 0
        /\ checkouts = {}
        /\ stagedFate = "none"
        /\ OutsidePanelInit

\* the handlers that submit, settle, confirm and cancel
NextDraft ==
    \/ submitForm
    \/ \E r \in BagToSet(requests) : makePaymentThen(r)
    \/ \E r \in BagToSet(requests), error \in GatewayRejections : makePaymentCatch(r, error)
    \/ resetForm
    \/ closeDialog
    \/ confirmPaypalPayment
    \/ \E r \in BagToSet(requests) : executePaypalPaymentThen(r)
    \/ \E r \in BagToSet(requests), error \in GatewayRejections : executePaypalPaymentCatch(r, error)
    \/ payment
    \/ \E r \in BagToSet(requests) : stagePaypalPaymentThen(r)
    \/ \E r \in BagToSet(requests), error \in GatewayRejections : stagePaypalPaymentCatch(r, error)
    \/ \E id \in checkouts, payer \in PayerIds : onAuthorize(id, payer)
    \/ \E id \in checkouts : onCancel(id)

SpecDraft == InitDraft /\ [][NextDraft]_vars

(***************************************************************************)
(* The panel while the user fills in the form: the handlers of the fields  *)
(* and of the form's Cancel button.                                        *)
(***************************************************************************)
\* amounts the user can type: those of AmountInputs, amounts next to 5,
\* and 0.5 in the exponent notation a number field takes
TypedAmounts ==
    AmountInputs \cup { <<"4">>, <<"5">>, <<"6">>, <<"5", "e", "-", "1">> }

NextTyping ==
    \/ componentDidUpdate
    \/ \E value \in {"CREDIT_CARD", "PAYPAL"} : handleTypeChange(value)
    \/ \E value \in TypedAmounts : handleUSDChange(value)
    \/ \E value \in CcvInputs : handleCCVChange(value)
    \/ resetForm

SpecTyping == Init /\ [][NextTyping]_vars

(***************************************************************************)
(* Steps and sets the properties speak of.                                 *)
(***************************************************************************)
\* the step issues an execute request
IssuesExecute ==
    InFlight("executePaypalPayment")' > InFlight("executePaypalPayment")

\* the payment ids that successful stage responses have returned
StagedIds == {PaymentIdOf(n) : n \in 1..staged}

\* the step is the .catch callback of a gateway request rejected with error
Rejected(error) ==
    \E r \in BagToSet(requests) :
        \/ makePaymentCatch(r, error)
        \/ stagePaypalPaymentCatch(r, error)
        \/ executePaypalPaymentCatch(r, error)

\* the fields of the form that are blank; hasErrorFor('usd') is the error
\* text of the amount field and hasErrorFor('ccv') that of the CCV field
BlankFields ==
    (IF usd = <<>> THEN {"usd"} ELSE {}) \cup (IF ccv = "" THEN {"ccv"} ELSE {})

\* the entries of an error list that are addressed to field f
AddressedTo(f, list) == {i \in 1..Len(list) : list[i].field = f}

\* the string is a number written with exactly two decimal places: an
\* optional minus sign, one digit or more, a point and two digits
TwoDecimals(s) ==
    LET body == IF s # <<>> /\ s[1] = "-" THEN Tail(s) ELSE s
    IN  /\ Len(body) >= 4
        /\ body[Len(body) - 2] = "."
        /\ AllDigits(SubSeq(body, 1, Len(body) - 3))
        /\ AllDigits(SubSeq(body, Len(body) - 1, Len(body)))

\* the requests that the step issues
IssuedByStep ==
    {r \in BagToSet(requests') : CopiesIn(r, requests') > CopiesIn(r, requests)}

\* two numbers are the same number, or both are NaN
SameNumber(a, b) ==
    IF a.nan \/ b.nan THEN a.nan /\ b.nan
    ELSE LET m == IF a.scale < b.scale THEN a.scale ELSE b.scale
         IN  /\ a.mant * Pow10(b.scale - m) = b.mant * Pow10(a.scale - m)
             /\ a.mant = 0 \/ a.neg = b.neg

\* the number is less than 5
BelowFive(n) ==
    /\ ~n.nan
    /\ \/ n.neg
       \/ IF n.scale < 0 THEN n.mant = 0 ELSE n.mant < 5 * Pow10(n.scale)

\* the form as resetForm leaves it
FormCleared ==
    /\ errors = ErrorsUndefined
    /\ success = Undefined
    /\ usd = <<>>
    /\ ccv = ""
    /\ type = "CREDIT_CARD"

\* the step is the .then or the .catch callback of a gateway request
Responds ==
    \/ \E r \in BagToSet(requests) :
           \/ makePaymentThen(r)
           \/ stagePaypalPaymentThen(r)
           \/ executePaypalPaymentThen(r)
    \/ \E error \in GatewayRejections : Rejected(error)

\* the number is greater than 5
OverFive(n) ==
    /\ ~n.nan
    /\ ~n.neg
    /\ IF n.scale < 0 THEN n.mant > 0 ELSE n.mant > 5 * Pow10(n.scale)

\* the number is greater than zero
IsPositive(n) == ~n.nan /\ ~n.neg /\ n.mant > 0

(***************************************************************************)
(* Properties.                                                             *)
(***************************************************************************)
\* C1: an execute request is issued only by the Confirm button of the open
\* confirmation dialog, with a paymentID that a successful stage response
\* recorded and a payerID that onAuthorize delivered, and the request
\* carries the two; onAuthorize itself opens the dialog and issues no
\* execute request.
C1_ExecuteOnlyAfterAuthorizeAndConfirm ==
    [][ /\ IssuesExecute =>
             /\ confirmPaypalPayment
             /\ dialogOpen
             /\ paymentID \in StagedIds
             /\ payerID \in PayerIds
             /\ requests' = Issued(Request("executePaypalPayment", <<>>,
                                           Undefined, paymentID, payerID))
        /\ (\E id \in checkouts, payer \in PayerIds : onAuthorize(id, payer)) =>
             /\ dialogOpen'
             /\ ~IssuesExecute
      ]_vars

\* C1 witness: Confirm has issued an execute request for a staged and
\* authorized payment.
C1_Witness ==
    \E r \in RequestsOf("executePaypalPayment") :
        /\ r.payment_id \in StagedIds
        /\ r.payer_id \in PayerIds
        /\ dialogOpen

\* C2: at most one execute request is in flight at any time.
C2_AtMostOneExecuteInFlight == InFlight("executePaypalPayment") <= 1

\* C3: at most one makePayment request and at most one stage request is in
\* flight at any time.
C3_AtMostOneChargeAndOneStageInFlight ==
    /\ InFlight("makePayment") <= 1
    /\ InFlight("stagePaypalPayment") <= 1

\* C4: submitting a draft whose amount is blank, or whose type is
\* CREDIT_CARD and whose CCV is blank, by submitForm or by the PayPal
\* button's payment callback, records a validation error and issues no
\* gateway request.
C4_BlankDraftIsRejected ==
    [][ ( /\ submitForm \/ payment
          /\ usd = <<>> \/ (type = "CREDIT_CARD" /\ ccv = "") ) =>
            /\ requests' = requests
            /\ errors'.defined
            /\ errors'.list # <<>>
      ]_vars

\* C5: no execute request is issued for a staged payment that closeDialog
\* or onCancel cancelled before any execute request was issued for it.
C5_CancelledPaymentIsNeverExecuted ==
    [][ IssuesExecute => stagedFate # "cancelled" ]_vars

\* C6: onCancel leaves the panel as closeDialog does: the dialog closed, the
\* cancelled outcome shown, and the rest of the state as it was.
C6_OnCancelActsAsCloseDialog ==
    [][ (\E id \in checkouts : onCancel(id)) =>
            /\ dialogOpen' = FALSE
            /\ success' = "true"
            /\ successMessage' = CancelledMessage
            /\ UNCHANGED <<type, submitting, errors, usd, ccv, showPaypal,
                           paymentID, payerID, isExecutingPaypalPayment,
                           paypalSubmitEnabled>>
      ]_vars

\* C7: closeDialog while an execute request is in flight does not show
\* 'Payment Cancelled'.
C7_CancelWhileExecutingIsNotCancelled ==
    [][ (closeDialog /\ InFlight("executePaypalPayment") > 0) =>
            successMessage' # CancelledMessage
      ]_vars

\* C8: when an execute request fails, the errors are recorded, the
\* confirmation dialog is not open, and usd is unchanged.
C8_ExecuteFailureEndsFailed ==
    [][ (\E r \in BagToSet(requests), error \in GatewayRejections :
             executePaypalPaymentCatch(r, error)) =>
            /\ errors'.defined
            /\ errors'.list # <<>>
            /\ ~dialogOpen'
            /\ usd' = usd
      ]_vars

\* C9: when a gateway request has failed and no request is in flight any
\* more, submitting and isExecutingPaypalPayment are both false.
C9_FailureLeavesPanelIdle ==
    [][ ( /\ \E error \in GatewayRejections : Rejected(error)
          /\ requests' = EmptyBag ) =>
            /\ ~submitting'
            /\ ~isExecutingPaypalPayment'
      ]_vars

\* C10: when a gateway request fails, the errors recorded are the error
\* list of the response, entry for entry, when the response carries one,
\* and otherwise the one entry 'Unable to make a payment at this time.'.
C10_FailureRecordsGatewayErrors ==
    [][ \A error \in GatewayRejections :
            Rejected(error) =>
                errors' = [defined |-> TRUE,
                           list |-> IF error.hasErrors
                                    THEN error.errors
                                    ELSE <<[field |-> Undefined,
                                            reason |-> GenericReason]>>]
      ]_vars

\* C10 witness: a failed request has recorded the error list of its response.
C10_Witness == errors.defined /\ errors.list \in GatewayErrorLists

\* C11: submitForm on a draft whose amount is not blank and is no positive
\* number (zero, negative or not a number) records a validation error and
\* issues no makePayment request.
C11_NonPositiveAmountIsRejected ==
    [][ (submitForm /\ usd # <<>> /\ ~IsPositive(ToNumber(usd))) =>
            /\ requests' = requests
            /\ errors'.defined
            /\ errors'.list # <<>>
      ]_vars

\* C12: when submitForm fails validation, the errors recorded hold exactly
\* one entry for each blank field and no other entry: one addressed to the
\* amount field when the amount is blank, one addressed to the CCV field
\* when the CCV is blank.
C12_OneErrorPerBlankField ==
    [][ (submitForm /\ BlankFields # {}) =>
            /\ errors'.defined
            /\ Len(errors'.list) = Cardinality(BlankFields)
            /\ \A f \in {"usd", "ccv"} :
                   Cardinality(AddressedTo(f, errors'.list)) =
                       (IF f \in BlankFields THEN 1 ELSE 0)
            /\ requests' = requests
      ]_vars

\* C12 witness: submitForm on a draft with both fields blank has recorded
\* the two entries.
C12_Witness ==
    /\ BlankFields = {"usd", "ccv"}
    /\ errors.defined
    /\ Len(errors.list) = 2
    /\ AddressedTo("usd", errors.list) # {}
    /\ AddressedTo("ccv", errors.list) # {}

\* C13: when an execute request succeeds, the confirmation dialog is
\* closed, success is true and the notice shows the default success message
\* and not 'Payment Cancelled', isExecutingPaypalPayment is false and usd
\* is the empty string.
C13_ExecuteSuccessEndsInSuccess ==
    [][ (\E r \in BagToSet(requests) : executePaypalPaymentThen(r)) =>
            /\ ~dialogOpen'
            /\ success' = "true"
            /\ SuccessNotice' = DefaultSuccessMessage
            /\ SuccessNotice' # CancelledMessage
            /\ ~isExecutingPaypalPayment'
            /\ usd' = <<>>
      ]_vars

\* C13 witness: the execute request that Confirm issued for the staged
\* payment has succeeded and none is in flight.
C13_Witness ==
    /\ stagedFate = "executed"
    /\ InFlight("executePaypalPayment") = 0
    /\ ~isExecutingPaypalPayment
    /\ ~dialogOpen
    /\ SuccessNotice = DefaultSuccessMessage
    /\ usd = <<>>

\* C14: for a credit-card draft whose amount and CCV are not blank, one
\* submitForm issues exactly one makePayment request, which carries the CCV
\* entered and the amount, and no stage and no execute request; when a
\* makePayment request succeeds the panel shows success and submitting is
\* false, and when it fails the panel shows the failure.
C14_CreditCardChargesOnce ==
    [][ /\ (submitForm /\ type = "CREDIT_CARD" /\ usd # <<>> /\ ccv # "") =>
             \E r \in BagToSet(requests') :
                 /\ r.op = "makePayment"
                 /\ r.ccv = ccv
                 /\ SameNumber(ToNumber(r.usd), ToNumber(usd))
                 /\ requests' = Issued(r)
        /\ (\E r \in BagToSet(requests) : makePaymentThen(r)) =>
             /\ SuccessNotice' # Undefined
             /\ ~submitting'
        /\ (\E r \in BagToSet(requests), error \in GatewayRejections :
                makePaymentCatch(r, error)) =>
             /\ errors'.defined
             /\ errors'.list # <<>>
      ]_vars

\* C14 witness: submitForm on the draft of amount 10 and CCV 123 has issued
\* the makePayment request, which carries 10.00 and 123.
C14_Witness ==
    /\ type = "CREDIT_CARD"
    /\ usd = <<"1", "0">>
    /\ ccv = "123"
    /\ submitting
    /\ requests = SetToBag({Request("makePayment", <<"1", "0", ".", "0", "0">>,
                                    "123", Undefined, Undefined)})

C16_StagedPaymentIsDiscarded ==
    [][ ( \/ \E r \in BagToSet(requests) : executePaypalPaymentThen(r)
          \/ \E r \in BagToSet(requests), error \in GatewayRejections :
                 executePaypalPaymentCatch(r, error)
          \/ closeDialog
          \/ \E id \in checkouts : onCancel(id) ) =>
            /\ paymentID' = ""
            /\ payerID' = ""
      ]_vars

\* C17: whenever the confirmation dialog is open, the amount it presents
\* is the amount of the stage request whose paymentID Confirm will execute,
\* also when the user changed the amount field after that request was sent.
\* The amount a payment was staged with is fixed: while the dialog stays
\* open on one paymentID, the amount it presents is the same before and
\* after every step.
C17_DialogPresentsStagedAmount ==
    [][ (dialogOpen /\ dialogOpen' /\ paymentID' = paymentID) =>
            DialogAmount' = DialogAmount
      ]_vars

\* C18: every amount that a makePayment or a stage request carries is the
\* amount entered, written with exactly two decimal places; no request
\* carries an amount in another format.
C18_AmountsSentWithTwoDecimals ==
    [][ \A r \in IssuedByStep :
            r.op \in {"makePayment", "stagePaypalPayment"} =>
                /\ TwoDecimals(r.usd)
                /\ SameNumber(ToNumber(r.usd), ToNumber(usd))
      ]_vars

\* C20: a stage request is issued through the PayPal button only while
\* paypalSubmitEnabled is true: with paypalSubmitEnabled false the payment
\* callback cannot be triggered.
C20_StageOnlyOncePaypalSubmitEnabled ==
    [][ ( \/ payment
          \/ InFlight("stagePaypalPayment")' > InFlight("stagePaypalPayment") ) =>
            paypalSubmitEnabled
      ]_vars

\* C21: paypalSubmitEnabled is false initially and stays false until the
\* user enters, with PayPal selected, an amount over 5.
C21_PaypalSubmitStaysFalseUntilOverFive ==
    /\ ~paypalSubmitEnabled
    /\ [][ (~paypalSubmitEnabled /\ paypalSubmitEnabled') =>
               \E value \in TypedAmounts :
                   /\ handleUSDChange(value)
                   /\ type = "PAYPAL"
                   /\ OverFive(ToNumber(value))
         ]_vars

\* C22: in no reachable state is success true while the errors list is not
\* empty: no success or 'Payment Cancelled' notice is shown together with
\* an error.
C22_SuccessAndErrorsExclude ==
    ~(success = "true" /\ errors.defined /\ errors.list # <<>>)

\* C23: submitting is true exactly while a makePayment or a stage request
\* is in flight.
C23_SubmittingWhileInFlight ==
    submitting <=> (InFlight("makePayment") + InFlight("stagePaypalPayment") > 0)

\* C24: after resetForm, the response of a gateway request issued before
\* the reset does not change what the form shows: success and errors stay
\* cleared and usd and ccv stay blank.  resetForm leaves a cleared form as
\* it is, so every state with a cleared form is a state right after
\* resetForm, and no response may change it.
C24_ResponseAfterResetChangesNothing ==
    [][ (FormCleared /\ Responds) => FormCleared' ]_vars

\* C25: payerID is set by onAuthorize only; whenever the confirmation
\* dialog is open, paymentID and payerID are both non-empty; every execute
\* request carries a payment_id that a successful stage response returned
\* and a payer_id that onAuthorize delivered.
C25_IdsPresentWhenConfirming ==
    /\ payerID = ""
    /\ [][ payerID' # payerID =>
               \E id \in checkouts, payer \in PayerIds : onAuthorize(id, payer)
         ]_vars
    /\ [](dialogOpen => (paymentID # "" /\ payerID # ""))
    /\ [](\A r \in RequestsOf("executePaypalPayment") :
               /\ r.payment_id \in StagedIds
               /\ r.payer_id \in PayerIds)

\* C25 witness: with the dialog open on PAY-1 and PAYER-1, Confirm has
\* issued the one execute request, which carries the two.
C25_Witness ==
    /\ dialogOpen
    /\ paymentID = "PAY-1"
    /\ payerID = "PAYER-1"
    /\ requests = SetToBag({Request("executePaypalPayment", <<>>, Undefined,
                                    "PAY-1", "PAYER-1")})

\* C26: the type is PAYPAL only while showPaypal is true; showPaypal, once
\* true, stays true; no stage request is issued before the script has
\* loaded.
C26_PaypalOnlyOnceScriptLoaded ==
    /\ [](type = "PAYPAL" => showPaypal)
    /\ [][ showPaypal => showPaypal' ]_vars
    /\ [][ InFlight("stagePaypalPayment")' > InFlight("stagePaypalPayment") =>
               (isScriptLoadSucceed /\ showPaypal)
         ]_vars

\* C26 witness: with the script loaded and PAYPAL chosen, a stage request
\* is in flight.
C26_Witness ==
    /\ type = "PAYPAL"
    /\ showPaypal
    /\ isScriptLoadSucceed
    /\ InFlight("stagePaypalPayment") > 0

(***************************************************************************)
(* DeleteKubernetesClusterDialog.  The parent owns the prop open and       *)
(* closes the dialog when onClose is called; the dialog's own Cancel and   *)
(* close controls call onClose as well.  useDeleteKubernetesClusterMutation*)
(* reports the state of the latest mutation only: a second mutate resets   *)
(* isLoading and error and detaches the earlier mutation, whose promise    *)
(* still settles and still runs the callbacks onDelete chained to it.      *)
(* confirmText is written only by the effect that empties it, so it is     *)
(* always empty and is not a variable.                                     *)
(***************************************************************************)

\* the most deleteCluster promises pending at a time
MaxDeleting == 3

\* the clusters the dialog is opened for
ClusterIds == {1, 2}

\* the page of the cluster, where the dialog is rendered
ClusterDetailPage ==
    IF clusterId = 1 THEN "/kubernetes/clusters/1"
                     ELSE "/kubernetes/clusters/2"

ClusterListPage == "/kubernetes/clusters"

\* the error lists a rejected deleteCluster carries
DeleteErrorLists ==
    { <<[reason |-> "Cluster is busy"]>>,
      <<[reason |-> "Not found"]>>,
      <<[reason |-> "Unauthorized"], [reason |-> "Try again later"]>> }

\* the current location
Location == history[Len(history)]

\* history.replace(path)
Replace(path) == [history EXCEPT ![Len(history)] = path]

\* history.push(path)
Push(path) == Append(history, path)

\* the deleteCluster promises that have not settled
PendingDeletes == superseded + (IF deleting THEN 1 ELSE 0)

\* the text of the error Notice, Undefined when none is rendered
ErrorNotice ==
    IF mutationError # NoError THEN mutationError[1].reason ELSE Undefined

\* the cluster's page is shown with the dialog closed
InitCluster ==
    /\ PanelInit
    /\ clusterId \in ClusterIds
    /\ open = FALSE
    /\ deleting = FALSE
    /\ superseded = 0
    /\ mutationError = NoError
    /\ formErrors = {}
    /\ creating = 0
    /\ history = <<ClusterDetailPage>>
    /\ calls = <<>>

\* the parent opens the dialog
openDialog ==
    /\ Location = ClusterDetailPage
    /\ ~open
    /\ open' = TRUE
    /\ calls' = <<>>
    /\ UNCHANGED <<clusterId, deleting, superseded, mutationError, history>>
    /\ UNCHANGED <<panelVars, alertVars>>

\* the user dismisses the dialog
onClose ==
    /\ Location = ClusterDetailPage
    /\ open
    /\ open' = FALSE
    /\ calls' = <<"onClose">>
    /\ UNCHANGED <<clusterId, deleting, superseded, mutationError, history>>
    /\ UNCHANGED <<panelVars, alertVars>>

\* the user confirms the deletion
onDelete ==
    /\ Location = ClusterDetailPage
    /\ open
    /\ PendingDeletes < MaxDeleting
    /\ superseded' = PendingDeletes
    /\ deleting' = TRUE
    /\ mutationError' = NoError
    /\ calls' = <<>>
    /\ UNCHANGED <<clusterId, open, history>>
    /\ UNCHANGED <<panelVars, alertVars>>

\* a deleteCluster promise resolves: of the latest mutation or of an earlier
deleteClusterThen(latest) ==
    /\ IF latest
         THEN deleting /\ deleting' = FALSE /\ UNCHANGED superseded
         ELSE superseded > 0 /\ superseded' = superseded - 1
                             /\ UNCHANGED deleting
    /\ open' = FALSE
    /\ history' = Replace(ClusterListPage)
    /\ calls' = <<"onClose", "history.replace">>
    /\ UNCHANGED <<clusterId, mutationError>>
    /\ UNCHANGED <<panelVars, alertVars>>

\* a rejection that closes the dialog
deleteClusterCatchClosing(latest, errs) ==
    /\ IF latest
         THEN deleting /\ deleting' = FALSE /\ mutationError' = errs
                       /\ UNCHANGED superseded
         ELSE superseded > 0 /\ superseded' = superseded - 1
                             /\ UNCHANGED <<deleting, mutationError>>
    /\ open' = FALSE
    /\ calls' = <<"onClose">>
    /\ UNCHANGED <<clusterId, history>>
    /\ UNCHANGED <<panelVars, alertVars>>

\* a deleteCluster promise rejects: onDelete chained no handler to it
deleteClusterCatch(latest, errs) ==
    /\ IF latest
         THEN deleting /\ deleting' = FALSE /\ mutationError' = errs
                       /\ UNCHANGED superseded
         ELSE superseded > 0 /\ superseded' = superseded - 1
                             /\ UNCHANGED <<deleting, mutationError>>
    /\ calls' = <<>>
    /\ UNCHANGED <<clusterId, open, history>>
    /\ UNCHANGED <<panelVars, alertVars>>

NextCluster ==
    \/ openDialog
    \/ onClose
    \/ onDelete
    \/ \E latest \in BOOLEAN : deleteClusterThen(latest)
    \/ \E latest \in BOOLEAN, errs \in DeleteErrorLists :
           deleteClusterCatch(latest, errs)

SpecCluster == InitCluster /\ [][NextCluster]_vars

\* the latest step called c
Called(c) == \E i \in 1..Len(calls) : calls[i] = c

\* the step is the resolution of a deleteCluster promise
DeleteSucceeds == \E latest \in BOOLEAN : deleteClusterThen(latest)

\* C27 as stated: onClose and the navigation to /kubernetes/clusters happen
\* only in the step in which a delete request succeeds, onClose first, and
\* the step in which a delete request fails makes neither call and leaves the
\* dialog open with the first reason of the returned errors in its notice.
C27_CloseAndNavigateOnlyAfterDelete ==
    [][ /\ (Called("onClose")' \/ Called("history.replace")') =>
               (DeleteSucceeds /\ calls' = <<"onClose", "history.replace">>)
        /\ \A latest \in BOOLEAN, errs \in DeleteErrorLists :
               deleteClusterCatch(latest, errs) =>
                   /\ calls' = <<>>
                   /\ open /\ open'
                   /\ ErrorNotice' = errs[1].reason ]_vars

\* C27 amended: the navigation to /kubernetes/clusters happens only in the
\* step in which a delete request succeeds, right after onClose; onClose is
\* called otherwise only when the user dismisses the dialog; the step in which
\* a delete request fails makes neither call, neither opens nor closes the
\* dialog nor changes the location, and when the request is the latest one the
\* notice holds the first reason of the returned errors.
C27_NavigateOnlyAfterDelete ==
    [][ /\ Called("history.replace")' =>
               (DeleteSucceeds /\ calls' = <<"onClose", "history.replace">>)
        /\ Called("onClose")' => (DeleteSucceeds \/ onClose)
        /\ \A latest \in BOOLEAN, errs \in DeleteErrorLists :
               deleteClusterCatch(latest, errs) =>
                   /\ calls' = <<>>
                   /\ open' = open
                   /\ history' = history
                   /\ latest => ErrorNotice' = errs[1].reason ]_vars

\* the latest delete request has failed and an earlier one has then succeeded:
\* the dialog was closed and the list page replaced the cluster's page
C27_Witness ==
    /\ calls = <<"onClose", "history.replace">>
    /\ Location = ClusterListPage
    /\ ~open
    /\ ErrorNotice = "Unauthorized"

(***************************************************************************)
(* CreateAlertDefinition.  handleSubmit runs the schema first: when the    *)
(* values are invalid it stores the schema's errors and does not call the  *)
(* callback, when they are valid it empties the errors and calls it.       *)
(* formState.errors holds one error per name, setError replacing the one   *)
(* the name had.  The Cancel button calls alertCreateExit.                 *)
(***************************************************************************)

\* the most createAlert promises pending at a time
MaxCreating == 3

AlertCreatePage == "/monitor/alerts/definitions/create"

AlertListPage == "/monitor/alerts/definitions"

\* the errors the schema finds in invalid values
SchemaErrors == {[name |-> "label", message |-> "Name is required."]}

\* the error lists a rejected createAlert carries
AlertErrorLists ==
    { <<[field |-> "label", reason |-> "Label is already in use"]>>,
      <<[field |-> "severity", reason |-> "Severity is out of range"],
        [field |-> Undefined, reason |-> "Service is unavailable"]>>,
      <<[field |-> "label", reason |-> "Label is too long"],
        [field |-> "label", reason |-> "Label has invalid characters"]>>,
      <<[field |-> Undefined, reason |-> "Too many alerts"],
        [field |-> Undefined, reason |-> "Account is restricted"]>> }

\* the name onSubmit attaches an error to
Target(e) == IF e.field # Undefined THEN e.field ELSE "root"

\* setError(name, {message})
SetError(formErrs, name, message) ==
    {e \in formErrs : e.name # name}
        \cup {[name |-> name, message |-> message]}

\* the loop of onSubmit's catch over the first n of the returned errors
RECURSIVE SetErrors(_, _, _)
SetErrors(formErrs, errs, n) ==
    IF n = 0 THEN formErrs
    ELSE SetError(SetErrors(formErrs, errs, n - 1),
                  Target(errs[n]), errs[n].reason)

\* the create page is shown with the default values
InitAlert ==
    /\ PanelInit
    /\ clusterId = 1
    /\ open = FALSE
    /\ deleting = FALSE
    /\ superseded = 0
    /\ mutationError = NoError
    /\ formErrors = {}
    /\ creating = 0
    /\ history = <<AlertCreatePage>>
    /\ calls = <<>>

\* the label field loses the focus: mode 'onBlur' runs the schema on it
onBlur(valid) ==
    /\ Location = AlertCreatePage
    /\ formErrors' =
           IF valid THEN {e \in formErrors : e.name # "label"}
           ELSE SetError(formErrors, "label", "Name is required.")
    /\ calls' = <<>>
    /\ UNCHANGED <<creating, history>>
    /\ UNCHANGED <<panelVars, clusterVars>>

\* the form is submitted
onSubmit(valid) ==
    /\ Location = AlertCreatePage
    /\ IF valid
         THEN /\ creating < MaxCreating
              /\ creating' = creating + 1
              /\ formErrors' = {}
         ELSE /\ formErrors' = SchemaErrors
              /\ UNCHANGED creating
    /\ calls' = <<>>
    /\ UNCHANGED history
    /\ UNCHANGED <<panelVars, clusterVars>>

\* a createAlert promise resolves
createAlertThen ==
    /\ creating > 0
    /\ creating' = creating - 1
    /\ history' = Push(AlertListPage)
    /\ calls' = <<"enqueueSnackbar", "history.push">>
    /\ UNCHANGED formErrors
    /\ UNCHANGED <<panelVars, clusterVars>>

\* a createAlert promise rejects with errs
createAlertCatch(errs) ==
    /\ creating > 0
    /\ creating' = creating - 1
    /\ formErrors' = SetErrors(formErrors, errs, Len(errs))
    /\ calls' = <<>>
    /\ UNCHANGED history
    /\ UNCHANGED <<panelVars, clusterVars>>

\* the Cancel button
alertCreateExit ==
    /\ Location = AlertCreatePage
    /\ history' = Push(AlertListPage)
    /\ calls' = <<"history.push">>
    /\ UNCHANGED <<formErrors, creating>>
    /\ UNCHANGED <<panelVars, clusterVars>>

NextAlert ==
    \/ \E valid \in BOOLEAN : onBlur(valid)
    \/ \E valid \in BOOLEAN : onSubmit(valid)
    \/ createAlertThen
    \/ \E errs \in AlertErrorLists : createAlertCatch(errs)
    \/ alertCreateExit

SpecAlert == InitAlert /\ [][NextAlert]_vars

\* the step is the resolution of a createAlert promise
CreateSucceeds == createAlertThen

\* C28: the success notification and the navigation to
\* /monitor/alerts/definitions happen only in the step in which a create
\* request succeeds; the step in which one fails makes neither call, leaves
\* the location alone, and leaves every returned error attached to the field
\* it names, or to the root when it names none.
C28_EveryReturnedErrorIsAttached ==
    [][ /\ (Called("enqueueSnackbar")' \/ Called("history.push")') =>
               CreateSucceeds
        /\ \A errs \in AlertErrorLists :
               createAlertCatch(errs) =>
                   /\ calls' = <<>>
                   /\ history' = history
                   /\ \A i \in 1..Len(errs) :
                          [name |-> Target(errs[i]),
                           message |-> errs[i].reason] \in formErrors' ]_vars

====
